---- MODULE Spec2Model ----
(***************************************************************************)
(* Remote billing login flows of corporate/views/remote_billing_page.py:   *)
(* token issuance (remote_server_billing_entry), token redemption          *)
(* (remote_server_billing_finalize_login), the legacy shared-secret login  *)
(* (remote_billing_legacy_server_login) and the page view                  *)
(* (render_tmp_remote_billing_page), over the browser sessions' identity   *)
(* maps, the RemoteZulipServer / RemoteRealm registry and the clock.       *)
(***************************************************************************)
EXTENDS Integers, FiniteSets, Sequences, TLC

VARIABLES
    DEVELOPMENT,                              \* settings.DEVELOPMENT
    SIGNED_ACCESS_TOKEN_VALIDITY_IN_SECONDS,  \* settings.SIGNED_ACCESS_TOKEN_VALIDITY_IN_SECONDS
    REMOTE_BILLING_SESSION_VALIDITY_SECONDS,  \* corporate.lib.remote_billing_util constant
    now,                                      \* timezone_now() / time.time(), in seconds
    remote_realms,                            \* RemoteRealm rows: realm uuid -> owning server (or NoServer)
    deactivated,                              \* RemoteZulipServer.deactivated, per registered server
    issued,                                   \* issuances so far: the request, its time and the token signed
    redeemed,                                 \* history: tokens whose redemption has succeeded
    session                                   \* request.session["remote_billing_identities"], per browser session

vars == <<DEVELOPMENT, SIGNED_ACCESS_TOKEN_VALIDITY_IN_SECONDS,
          REMOTE_BILLING_SESSION_VALIDITY_SECONDS, now, remote_realms,
          deactivated, issued, redeemed, session>>

config == <<DEVELOPMENT, SIGNED_ACCESS_TOKEN_VALIDITY_IN_SECONDS,
            REMOTE_BILLING_SESSION_VALIDITY_SECONDS>>

----------------------------------------------------------------------------
(* Bounds of the model. *)

MaxTime == 2        \* the clock runs over 0..MaxTime
MaxValidity == 1    \* token validity ranges over 1..MaxValidity
MaxTokens == 1      \* at most this many distinct tokens are issued

----------------------------------------------------------------------------
(* Values. *)

None == "None"

\* VALID_NEXT_PAGES = [None, "sponsorship", "upgrade", "billing", "plans"]
VALID_NEXT_PAGES == {None, "sponsorship", "upgrade", "billing", "plans"}

\* next_page values a request may carry: the enumeration and one value outside it.
NextPageParams == VALID_NEXT_PAGES \cup {"bogus"}

\* uri_scheme: Literal["http://", "https://"]
UriSchemes == {"http://", "https://"}

\* Registered RemoteZulipServer rows, and the uuids a login form may name.
RemoteServers == {"srvA", "srvB"}
ServerOrgIds == RemoteServers \cup {"srvX"}

\* RemoteZulipServer.api_key of each registered server.
api_key(server) == IF server = "srvA" THEN "keyA" ELSE "keyB"

\* server_org_secret values a login form may carry.
ServerOrgSecrets == {"keyA", "keyB"}

RealmUuids == {"r1", "r2"}
NoServer == "-"

\* user: Json[UserDataForRemoteBilling]
Iago == [email |-> "iago@zulip.com", uuid |-> "u1", full_name |-> "Iago"]
Hamlet == [email |-> "hamlet@zulip.com", uuid |-> "u2", full_name |-> "King Hamlet"]

Sessions == {"s1", "s2"}

\* settings.SECRET_KEY, and a key that is not the process's (stale, rotated, attacker's).
SECRET_KEY == "secret_key"
OTHER_KEY == "other_key"

----------------------------------------------------------------------------
(* django.core.signing as the view uses it: dumps (line 74), loads (94-96). *)

\* JSON serialisation of the identity dict: the members in order.
Encode(identity_dict) ==
    << << identity_dict.user.user_email, identity_dict.user.user_uuid,
          identity_dict.user.user_full_name >>,
       identity_dict.remote_server_uuid,
       identity_dict.remote_realm_uuid,
       identity_dict.authenticated_at,
       identity_dict.uri_scheme,
       identity_dict.next_page >>

\* A parse that takes the two uuids in the wrong order.
Decode_swapped(value) ==
    [ user |-> [ user_email |-> value[1][1], user_uuid |-> value[1][2],
                 user_full_name |-> value[1][3] ],
      remote_server_uuid |-> value[3],
      remote_realm_uuid |-> value[2],
      authenticated_at |-> value[4],
      uri_scheme |-> value[5],
      next_page |-> value[6] ]

\* JSON parse of the payload back into a dict.
Decode(value) ==
    [ user |-> [ user_email |-> value[1][1], user_uuid |-> value[1][2],
                 user_full_name |-> value[1][3] ],
      remote_server_uuid |-> value[2],
      remote_realm_uuid |-> value[3],
      authenticated_at |-> value[4],
      uri_scheme |-> value[5],
      next_page |-> value[6] ]

\* A checksum that does not depend on the key.
Signature_keyless(key, value, timestamp) == <<value, timestamp>>

\* The MAC over "value:timestamp" under key (an ideal MAC: equal only on equal input).
Signature(key, value, timestamp) == <<key, value, timestamp>>

\* signing.dumps(obj): value:timestamp:signature, the timestamp being the signing time.
dumps(key, obj, time) ==
    [ value |-> Encode(obj), timestamp |-> time,
      signature |-> Signature(key, Encode(obj), time) ]

\* loads that enforces no max_age.
loads_no_expiry(key, token, max_age, time) ==
    IF token.signature # Signature(key, token.value, token.timestamp)
    THEN [ raised |-> "BadSignature" ]
    ELSE [ raised |-> None, obj |-> Decode(token.value) ]

\* loads that verifies no signature.
loads_unverified(key, token, max_age, time) ==
    IF time - token.timestamp > max_age
    THEN [ raised |-> "SignatureExpired" ]
    ELSE [ raised |-> None, obj |-> Decode(token.value) ]

\* loads that already expires a token whose age equals max_age.
loads_strict(key, token, max_age, time) ==
    IF token.signature # Signature(key, token.value, token.timestamp)
    THEN [ raised |-> "BadSignature" ]
    ELSE IF time - token.timestamp >= max_age
    THEN [ raised |-> "SignatureExpired" ]
    ELSE [ raised |-> None, obj |-> Decode(token.value) ]

\* loads that lets a token live one second beyond max_age.
loads_lenient(key, token, max_age, time) ==
    IF token.signature # Signature(key, token.value, token.timestamp)
    THEN [ raised |-> "BadSignature" ]
    ELSE IF time - token.timestamp > max_age + 1
    THEN [ raised |-> "SignatureExpired" ]
    ELSE [ raised |-> None, obj |-> Decode(token.value) ]

\* signing.loads(token, max_age): the signature is verified first, then the age.
loads(key, token, max_age, time) ==
    IF token.signature # Signature(key, token.value, token.timestamp)
    THEN [ raised |-> "BadSignature" ]
    ELSE IF time - token.timestamp > max_age
    THEN [ raised |-> "SignatureExpired" ]
    ELSE [ raised |-> None, obj |-> Decode(token.value) ]

----------------------------------------------------------------------------
(* The session identity map. *)

NoIdentities == <<>>

\* A put that adds the entry to the map it finds.
put_keeping(identities, key, identity_dict) == (key :> identity_dict) @@ identities

\* request.session["remote_billing_identities"] = {}; ...[key] = identity_dict
put(identities, key, identity_dict) == key :> identity_dict

RealmKey(remote_realm_uuid) == <<"remote_realm", remote_realm_uuid>>
ServerKey(remote_server_uuid) == <<"remote_server", remote_server_uuid>>

----------------------------------------------------------------------------
(* Initial states. *)

InitState ==
    /\ now = 0
    /\ remote_realms = [uuid \in RealmUuids |-> IF uuid = "r1" THEN "srvA" ELSE "srvB"]
    /\ deactivated = [server \in RemoteServers |-> server = "srvB"]
    /\ issued = {}
    /\ redeemed = {}
    /\ session = [s \in Sessions |-> NoIdentities]

\* A deployment whose configuration satisfies the sanity assert of line 89.
Init ==
    /\ DEVELOPMENT \in BOOLEAN
    /\ SIGNED_ACCESS_TOKEN_VALIDITY_IN_SECONDS \in 1..MaxValidity
    /\ REMOTE_BILLING_SESSION_VALIDITY_SECONDS = MaxValidity + 1
    /\ SIGNED_ACCESS_TOKEN_VALIDITY_IN_SECONDS < REMOTE_BILLING_SESSION_VALIDITY_SECONDS
    /\ InitState

\* A production deployment: DEVELOPMENT is off.
InitProduction ==
    /\ DEVELOPMENT = FALSE
    /\ SIGNED_ACCESS_TOKEN_VALIDITY_IN_SECONDS \in 1..MaxValidity
    /\ REMOTE_BILLING_SESSION_VALIDITY_SECONDS = MaxValidity + 1
    /\ InitState

\* A deployment configured with a token validity that is not below the session validity.
InitMisconfigured ==
    /\ DEVELOPMENT \in BOOLEAN
    /\ SIGNED_ACCESS_TOKEN_VALIDITY_IN_SECONDS \in 1..(MaxValidity + 1)
    /\ REMOTE_BILLING_SESSION_VALIDITY_SECONDS \in 1..(MaxValidity + 1)
    /\ SIGNED_ACCESS_TOKEN_VALIDITY_IN_SECONDS >= REMOTE_BILLING_SESSION_VALIDITY_SECONDS
    /\ InitState

----------------------------------------------------------------------------
(* Requests. *)

\* Issuance requests: the calling server (authenticated on the machine channel),
\* the user and realm it claims, the URL scheme and the page wanted after login.
\* Three are for a realm of the caller's own, one is for a realm registered to
\* another server, and one carries a next_page outside the enumeration.
EntryRequests ==
    { [remote_server |-> "srvA", user |-> Iago,   realm |-> "r1", uri_scheme |-> "https://", next_page |-> None],
      [remote_server |-> "srvA", user |-> Hamlet, realm |-> "r1", uri_scheme |-> "http://",  next_page |-> "upgrade"],
      [remote_server |-> "srvB", user |-> Hamlet, realm |-> "r2", uri_scheme |-> "https://", next_page |-> "billing"],
      [remote_server |-> "srvA", user |-> Iago,   realm |-> "r2", uri_scheme |-> "https://", next_page |-> "plans"],
      [remote_server |-> "srvA", user |-> Iago,   realm |-> "r1", uri_scheme |-> "https://", next_page |-> "bogus"] }

\* A lookup by uuid alone, whichever server the realm is registered to.
RemoteRealmExists_any_server(uuid, server) == remote_realms[uuid] # NoServer

\* A lookup that finds a row for every realm.
RemoteRealmExists_always(uuid, server) == TRUE

\* RemoteRealm.objects.get(uuid=..., server=...) finds a row.
RemoteRealmExists(uuid, server) == remote_realms[uuid] = server

\* A check that never sees the deactivated flag.
IsDeactivated_never(remote_server) == FALSE

\* remote_server.deactivated
IsDeactivated(remote_server) == deactivated[remote_server]

\* An entry point that is never disabled.
Disabled_never == FALSE

\* not settings.DEVELOPMENT
Disabled == ~DEVELOPMENT

\* A view without the sanity assert.
SanityAssert_skipped == TRUE

\* The sanity assert that opens remote_server_billing_finalize_login.
SanityAssert ==
    SIGNED_ACCESS_TOKEN_VALIDITY_IN_SECONDS < REMOTE_BILLING_SESSION_VALIDITY_SECONDS

----------------------------------------------------------------------------
(* remote_server_billing_entry: token issuance. *)

\* typed_endpoint's check of next_page against VALID_NEXT_PAGES_TYPE (line 51).
ValidNextPage(next_page) == next_page \in VALID_NEXT_PAGES

\* RemoteBillingIdentityDict(...) of lines 63-72.
RemoteBillingIdentityDict(req, time) ==
    [ user |-> [ user_email |-> req.user.email, user_uuid |-> req.user.uuid,
                 user_full_name |-> req.user.full_name ],
      remote_server_uuid |-> req.remote_server,
      remote_realm_uuid |-> req.realm,
      authenticated_at |-> time,
      uri_scheme |-> req.uri_scheme,
      next_page |-> req.next_page ]

\* What remote_server_billing_entry answers to req: the outcome and the
\* billing_access_url it returns, if any (the URL is the signed token).
EntryResponse(req) ==
    LET identity_dict == RemoteBillingIdentityDict(req, now)
        signed_identity_dict == dumps(SECRET_KEY, identity_dict, now)
    IN  IF ~ValidNextPage(req.next_page)
        THEN [ outcome |-> "invalid parameter", billing_access_url |-> {} ]
        ELSE IF Disabled
        THEN [ outcome |-> "404", billing_access_url |-> {} ]
        ELSE IF ~RemoteRealmExists(req.realm, req.remote_server)
        THEN [ outcome |-> "MissingRemoteRealmError", billing_access_url |-> {} ]
        ELSE [ outcome |-> "json_success", billing_access_url |-> {signed_identity_dict} ]

\* An issuance that also empties the identity maps of the sessions.
remote_server_billing_entry_clearing(req) ==
    LET signed == { [ request |-> req, issued_at |-> now, token |-> token ] :
                        token \in EntryResponse(req).billing_access_url }
    IN  /\ Cardinality(issued \cup signed) <= MaxTokens
        /\ issued' = issued \cup signed
        /\ session' = [s \in Sessions |-> NoIdentities]
        /\ UNCHANGED <<config, now, remote_realms, deactivated, redeemed>>

remote_server_billing_entry(req) ==
    LET signed == { [ request |-> req, issued_at |-> now, token |-> token ] :
                        token \in EntryResponse(req).billing_access_url }
    IN  /\ Cardinality(issued \cup signed) <= MaxTokens
        /\ issued' = issued \cup signed
        /\ UNCHANGED <<config, now, remote_realms, deactivated, redeemed, session>>

----------------------------------------------------------------------------
(* Tokens a browser may present for redemption. *)

\* A value of the same kind that differs from v, for payload member i.
Altered(i, v) ==
    CASE i = 1 -> IF v[2] = "u1" THEN <<Hamlet.email, Hamlet.uuid, Hamlet.full_name>>
                                 ELSE <<Iago.email, Iago.uuid, Iago.full_name>>
      [] i = 2 -> IF v = "srvA" THEN "srvB" ELSE "srvA"
      [] i = 3 -> IF v = "r1" THEN "r2" ELSE "r1"
      [] i = 4 -> v + 1
      [] i = 5 -> IF v = "https://" THEN "http://" ELSE "https://"
      [] i = 6 -> IF v = "billing" THEN "bogus" ELSE "billing"

PayloadMembers == 1..6

\* What may be done to an issued token before it is presented: nothing, one payload
\* member altered, the timestamp moved past the present, or a signature under another key.
Tamperings ==
    { [kind |-> k, member |-> 0] : k \in {"none", "timestamp", "key"} } \cup
    { [kind |-> "value", member |-> i] : i \in PayloadMembers }

Tamper(token, how, time) ==
    IF how.kind = "none" THEN token
    ELSE IF how.kind = "timestamp" THEN [token EXCEPT !.timestamp = time + 1]
    ELSE IF how.kind = "key"
    THEN [token EXCEPT !.signature = Signature(OTHER_KEY, token.value, token.timestamp)]
    ELSE [token EXCEPT !.value =
              [token.value EXCEPT ![how.member] = Altered(how.member, token.value[how.member])]]

\* A token made without the process's key: any payload, signed under another key.
Forged(time) ==
    dumps(OTHER_KEY,
          RemoteBillingIdentityDict(
              [remote_server |-> "srvA", user |-> Iago, realm |-> "r1",
               uri_scheme |-> "https://", next_page |-> None], time),
          time)

Presentable ==
    { Tamper(g.token, how, now) : g \in issued, how \in Tamperings } \cup {Forged(now)}

----------------------------------------------------------------------------
(* remote_server_billing_finalize_login: token redemption. *)

\* A redirect that ignores next_page.
RealmPage_plans(next_page, remote_realm_uuid) ==
    <<"remote_realm_plans_page", remote_realm_uuid>>

\* reverse("remote_realm_plans_page" / f"remote_realm_{next_page}_page", args=(uuid,))
RealmPage(next_page, remote_realm_uuid) ==
    IF next_page = None
    THEN <<"remote_realm_plans_page", remote_realm_uuid>>
    ELSE <<"remote_realm_" \o next_page \o "_page", remote_realm_uuid>>

\* A redemption that looks the claim's realm up in the registry again and refuses
\* the token when the registry no longer links the realm to the claim's server.
FinalizeResponse_revalidating(s, signed_billing_access_token) ==
    LET loaded == loads(SECRET_KEY, signed_billing_access_token,
                        SIGNED_ACCESS_TOKEN_VALIDITY_IN_SECONDS, now)
        raise(outcome) == [ outcome |-> outcome, redirect |-> {}, session |-> session[s] ]
    IN  IF ~SanityAssert
        THEN raise("AssertionError")
        ELSE IF loaded.raised = "SignatureExpired"
        THEN raise("Billing access token expired.")
        ELSE IF loaded.raised = "BadSignature"
        THEN raise("Invalid billing access token.")
        ELSE IF ~RemoteRealmExists(loaded.obj.remote_realm_uuid, loaded.obj.remote_server_uuid)
        THEN raise("MissingRemoteRealmError")
        ELSE [ outcome |-> "redirect",
               redirect |-> {RealmPage(loaded.obj.next_page, loaded.obj.remote_realm_uuid)},
               session |-> put(session[s], RealmKey(loaded.obj.remote_realm_uuid),
                               loaded.obj) ]

\* What remote_server_billing_finalize_login answers in session s to the token:
\* the outcome, the redirect if any, and the identity map it leaves in the session.
FinalizeResponse(s, signed_billing_access_token) ==
    LET loaded == loads(SECRET_KEY, signed_billing_access_token,
                        SIGNED_ACCESS_TOKEN_VALIDITY_IN_SECONDS, now)
        raise(outcome) == [ outcome |-> outcome, redirect |-> {}, session |-> session[s] ]
    IN  IF ~SanityAssert
        THEN raise("AssertionError")
        ELSE IF loaded.raised = "SignatureExpired"
        THEN raise("Billing access token expired.")
        ELSE IF loaded.raised = "BadSignature"
        THEN raise("Invalid billing access token.")
        ELSE LET identity_dict == loaded.obj
                 remote_realm_uuid == identity_dict.remote_realm_uuid
             IN  IF identity_dict.next_page \notin VALID_NEXT_PAGES
                 THEN \* the assert of line 114 aborts the request: the session is not saved
                      raise("AssertionError")
                 ELSE [ outcome |-> "redirect",
                        redirect |-> {RealmPage(identity_dict.next_page, remote_realm_uuid)},
                        session |-> put(session[s], RealmKey(remote_realm_uuid), identity_dict) ]

remote_server_billing_finalize_login(s, signed_billing_access_token) ==
    LET answer == FinalizeResponse(s, signed_billing_access_token)
    IN  /\ session' = [session EXCEPT ![s] = answer.session]
        /\ redeemed' = IF answer.outcome = "redirect"
                       THEN redeemed \cup {signed_billing_access_token}
                       ELSE redeemed
        /\ UNCHANGED <<config, now, remote_realms, deactivated, issued>>

----------------------------------------------------------------------------
(* remote_billing_legacy_server_login: the shared-secret login form. *)

\* Form submissions: the optional fields, the request method and next_page.
\* A page other than the default is asked for by the submissions that carry a
\* registered server's own secret by POST.
LegacyRequests ==
    { req \in [ server_org_id : ServerOrgIds \cup {None},
                server_org_secret : ServerOrgSecrets \cup {None},
                method : {"GET", "POST"},
                next_page : NextPageParams ] :
        \/ req.next_page = None
        \/ /\ req.method = "POST"
           /\ req.server_org_id \in RemoteServers
           /\ req.server_org_secret = api_key(req.server_org_id) }

\* get_remote_server_by_uuid(server_org_id): the row, or RemoteZulipServer.DoesNotExist.
get_remote_server_by_uuid(server_org_id) ==
    IF server_org_id \in RemoteServers THEN {server_org_id} ELSE {}

\* A comparison that accepts every secret.
constant_time_compare_any(val1, val2) == TRUE

\* django.utils.crypto.constant_time_compare(val1, val2)
constant_time_compare(val1, val2) == val1 = val2

\* LegacyServerIdentityDict(...) of lines 269-272.
LegacyServerIdentityDict(remote_server_uuid, time) ==
    [ remote_server_uuid |-> remote_server_uuid, authenticated_at |-> time ]

\* reverse("remote_server_billing_page" / f"remote_server_{next_page}_page", args=(uuid,))
ServerPage(next_page, remote_server_uuid) ==
    IF next_page = None
    THEN <<"remote_server_billing_page", remote_server_uuid>>
    ELSE <<"remote_server_" \o next_page \o "_page", remote_server_uuid>>

\* A login that reads the deactivated flag before it compares the secret.
LegacyResponse_flag_first(s, req) ==
    LET respond(outcome, error_message) ==
            [ outcome |-> outcome, error_message |-> error_message,
              redirect |-> {}, session |-> session[s] ]
    IN  IF ~ValidNextPage(req.next_page)
        THEN respond("invalid parameter", "")
        ELSE IF req.server_org_id = None \/ req.server_org_secret = None
        THEN respond("render", "")
        ELSE IF req.method # "POST"
        THEN respond("HttpResponseNotAllowed", "")
        ELSE IF get_remote_server_by_uuid(req.server_org_id) = {}
        THEN respond("render", "Did not find a server registration for this server_org_id.")
        ELSE IF IsDeactivated(req.server_org_id)
        THEN respond("render", "Your server registration has been deactivated.")
        ELSE IF ~constant_time_compare(req.server_org_secret, api_key(req.server_org_id))
        THEN respond("render", "Invalid server_org_secret.")
        ELSE [ outcome |-> "redirect", error_message |-> "",
               redirect |-> {ServerPage(req.next_page, req.server_org_id)},
               session |-> put(session[s], ServerKey(req.server_org_id),
                               LegacyServerIdentityDict(req.server_org_id, now)) ]

\* A login that accepts the form by any request method.
LegacyResponse_any_method(s, req) ==
    LET respond(outcome, error_message) ==
            [ outcome |-> outcome, error_message |-> error_message,
              redirect |-> {}, session |-> session[s] ]
    IN  IF ~ValidNextPage(req.next_page)
        THEN respond("invalid parameter", "")
        ELSE IF req.server_org_id = None \/ req.server_org_secret = None
        THEN respond("render", "")
        ELSE IF get_remote_server_by_uuid(req.server_org_id) = {}
        THEN respond("render", "Did not find a server registration for this server_org_id.")
        ELSE IF ~constant_time_compare(req.server_org_secret, api_key(req.server_org_id))
        THEN respond("render", "Invalid server_org_secret.")
        ELSE IF IsDeactivated(req.server_org_id)
        THEN respond("render", "Your server registration has been deactivated.")
        ELSE [ outcome |-> "redirect", error_message |-> "",
               redirect |-> {ServerPage(req.next_page, req.server_org_id)},
               session |-> put(session[s], ServerKey(req.server_org_id),
                               LegacyServerIdentityDict(req.server_org_id, now)) ]

\* What remote_billing_legacy_server_login answers in session s to req: the outcome,
\* the error message of the re-rendered form, the redirect if any, and the identity
\* map it leaves in the session.
LegacyResponse(s, req) ==
    LET respond(outcome, error_message) ==
            [ outcome |-> outcome, error_message |-> error_message,
              redirect |-> {}, session |-> session[s] ]
    IN  IF ~ValidNextPage(req.next_page)
        THEN respond("invalid parameter", "")
        ELSE IF req.server_org_id = None \/ req.server_org_secret = None
        THEN respond("render", "")
        ELSE IF req.method # "POST"
        THEN respond("HttpResponseNotAllowed", "")
        ELSE IF get_remote_server_by_uuid(req.server_org_id) = {}
        THEN respond("render", "Did not find a server registration for this server_org_id.")
        ELSE LET remote_server == CHOOSE r \in get_remote_server_by_uuid(req.server_org_id) : TRUE
             IN  IF ~constant_time_compare(req.server_org_secret, api_key(remote_server))
                 THEN respond("render", "Invalid server_org_secret.")
                 ELSE IF IsDeactivated(remote_server)
                 THEN respond("render", "Your server registration has been deactivated.")
                 ELSE [ outcome |-> "redirect", error_message |-> "",
                        redirect |-> {ServerPage(req.next_page, remote_server)},
                        session |-> put(session[s], ServerKey(remote_server),
                                        LegacyServerIdentityDict(remote_server, now)) ]

remote_billing_legacy_server_login(s, req) ==
    /\ session' = [session EXCEPT ![s] = LegacyResponse(s, req).session]
    /\ UNCHANGED <<config, now, remote_realms, deactivated, issued, redeemed>>

----------------------------------------------------------------------------
(* render_tmp_remote_billing_page: an authenticated page view. *)

\* get_identity_dict_from_session(request, realm_uuid=..., server_uuid=...):
\* the record under the scoping key of whichever uuid is given, if any.
get_identity_dict_from_session(identities, realm_uuid, server_uuid) ==
    LET key == IF realm_uuid # None THEN RealmKey(realm_uuid) ELSE ServerKey(server_uuid)
    IN  IF realm_uuid = None /\ server_uuid = None THEN {}
        ELSE IF key \in DOMAIN identities THEN {identities[key]} ELSE {}

\* The page views name a realm (remote_realm_plans_page) or a server
\* (remote_server_plans_page), never both.
PageRequests ==
    { [realm_uuid |-> r, server_uuid |-> None] : r \in RealmUuids } \cup
    { [realm_uuid |-> None, server_uuid |-> v] : v \in RemoteServers }

\* What render_tmp_remote_billing_page answers in session s to req: the outcome and
\* the context of the rendered page, if any.
PageResponse(s, req) ==
    LET found == get_identity_dict_from_session(session[s], req.realm_uuid, req.server_uuid)
    IN  IF found = {}
        THEN [ outcome |-> "User not authenticated", context |-> {} ]
        ELSE LET identity_dict == CHOOSE d \in found : TRUE
                 remote_server_uuid == identity_dict.remote_server_uuid
                 remote_realm_uuid ==
                     IF "remote_realm_uuid" \in DOMAIN identity_dict
                     THEN identity_dict.remote_realm_uuid ELSE None
                 user_email ==
                     IF "user" \in DOMAIN identity_dict
                     THEN identity_dict.user.user_email ELSE None
             IN  IF remote_server_uuid \notin RemoteServers
                 THEN [ outcome |-> "Invalid remote server.", context |-> {} ]
                 ELSE IF remote_realm_uuid # None
                         /\ ~RemoteRealmExists(remote_realm_uuid, remote_server_uuid)
                 THEN [ outcome |-> "AssertionError", context |-> {} ]
                 ELSE [ outcome |-> "render",
                        context |-> { [ user_email |-> user_email,
                                        remote_server_uuid |-> remote_server_uuid,
                                        remote_realm_uuid |-> remote_realm_uuid ] } ]

\* The page view answers and writes nothing.
render_tmp_remote_billing_page(s, req) ==
    /\ PageResponse(s, req).outcome \in
          { "User not authenticated", "Invalid remote server.", "AssertionError", "render" }
    /\ UNCHANGED vars

----------------------------------------------------------------------------
(* The environment: the clock, and the registry, which other parts of the   *)
(* system write.                                                            *)

Tick ==
    /\ now < MaxTime
    /\ now' = now + 1
    /\ UNCHANGED <<config, remote_realms, deactivated, issued, redeemed, session>>

\* The registration of realm r1 is removed, and made again by its server.
MovableRealms == {"r1"}
RealmOwners == {"srvA", NoServer}

RegistryUpdate(uuid, server) ==
    /\ remote_realms[uuid] # server
    /\ remote_realms' = [remote_realms EXCEPT ![uuid] = server]
    /\ UNCHANGED <<config, now, deactivated, issued, redeemed, session>>

----------------------------------------------------------------------------

Next ==
    \/ \E req \in EntryRequests : remote_server_billing_entry(req)
    \/ \E s \in Sessions, token \in Presentable :
           remote_server_billing_finalize_login(s, token)
    \/ \E s \in Sessions, req \in LegacyRequests :
           remote_billing_legacy_server_login(s, req)
    \/ \E s \in Sessions, req \in PageRequests :
           render_tmp_remote_billing_page(s, req)
    \/ Tick
    \/ \E uuid \in MovableRealms, server \in RealmOwners :
           RegistryUpdate(uuid, server)

\* The deactivated flag of a registered server is set or cleared.
DeactivationUpdate(server) ==
    /\ deactivated' = [deactivated EXCEPT ![server] = ~deactivated[server]]
    /\ UNCHANGED <<config, now, remote_realms, issued, redeemed, session>>

\* The views, with servers being deactivated and reactivated meanwhile.
NextWithDeactivation ==
    \/ Next
    \/ \E server \in RemoteServers : DeactivationUpdate(server)

Spec == Init /\ [][Next]_vars

\* A production deployment (DEVELOPMENT off) whose servers are deactivated and
\* reactivated while the views run.
SpecWithDeactivation == InitProduction /\ [][NextWithDeactivation]_vars

SpecMisconfigured == InitMisconfigured /\ [][Next]_vars

----------------------------------------------------------------------------
(* Vocabulary of the properties. *)

\* The issuances that signed a token (none if it was never issued).
GrantsOf(token) == { g \in issued : g.token = token }

\* The token is an issued token with a member of its payload altered under the
\* issued signature, or it is signed under a key that is not the process's.
Tampered(token) ==
    \/ \E g \in issued :
          /\ token.signature = g.token.signature
          /\ token.timestamp = g.token.timestamp
          /\ token.value # g.token.value
    \/ token.signature = Signature(OTHER_KEY, token.value, token.timestamp)

\* The identity dict an issuance request asks for, member by member.
ClaimOf(g) ==
    [ user |-> [ user_email |-> g.request.user.email,
                 user_uuid |-> g.request.user.uuid,
                 user_full_name |-> g.request.user.full_name ],
      remote_server_uuid |-> g.request.remote_server,
      remote_realm_uuid |-> g.request.realm,
      authenticated_at |-> g.issued_at,
      uri_scheme |-> g.request.uri_scheme,
      next_page |-> g.request.next_page ]

----------------------------------------------------------------------------
(* C1: Single active identity. Every session's identity map holds at most   *)
(* one entry, and a successful token redemption or legacy login leaves in   *)
(* its session exactly the entry this login writes: a lookup under its key  *)
(* returns its record, and a lookup under any other key, one written        *)
(* earlier included, returns nothing.                                       *)
C1_SingleActiveIdentity ==
    /\ \A s \in Sessions : Cardinality(DOMAIN session[s]) <= 1
    /\ \A s \in Sessions, token \in Presentable :
          LET answer == FinalizeResponse(s, token)
          IN  answer.outcome = "redirect" =>
                \E g \in GrantsOf(token) :
                    /\ DOMAIN answer.session = { <<"remote_realm", g.request.realm>> }
                    /\ get_identity_dict_from_session(answer.session, g.request.realm, None)
                          = { ClaimOf(g) }
                    /\ \A k \in DOMAIN session[s] \ DOMAIN answer.session :
                          /\ k[1] = "remote_realm" =>
                                get_identity_dict_from_session(answer.session, k[2], None) = {}
                          /\ k[1] = "remote_server" =>
                                get_identity_dict_from_session(answer.session, None, k[2]) = {}
    /\ \A s \in Sessions, req \in LegacyRequests :
          LET answer == LegacyResponse(s, req)
          IN  answer.outcome = "redirect" =>
                /\ DOMAIN answer.session = { <<"remote_server", req.server_org_id>> }
                /\ get_identity_dict_from_session(answer.session, None, req.server_org_id)
                      = { [ remote_server_uuid |-> req.server_org_id,
                            authenticated_at |-> now ] }
                /\ \A k \in DOMAIN session[s] \ DOMAIN answer.session :
                      /\ k[1] = "remote_realm" =>
                            get_identity_dict_from_session(answer.session, k[2], None) = {}
                      /\ k[1] = "remote_server" =>
                            get_identity_dict_from_session(answer.session, None, k[2]) = {}

\* One session holds the record that the redemption of a token wrote and the other
\* the record of a legacy login; a legacy login in the first leaves the server's
\* record alone, a redemption in the second the realm's record alone, and a lookup
\* under the key held before returns nothing.
C1_Witness ==
    \E s1, s2 \in Sessions, g \in issued, req \in LegacyRequests :
        /\ g.token \in redeemed
        /\ session[s1] = ( <<"remote_realm", g.request.realm>> :> ClaimOf(g) )
        /\ DOMAIN session[s2] = { <<"remote_server", "srvA">> }
        /\ LegacyResponse(s1, req).outcome = "redirect"
        /\ DOMAIN LegacyResponse(s1, req).session = { <<"remote_server", "srvA">> }
        /\ get_identity_dict_from_session(LegacyResponse(s1, req).session,
                                          g.request.realm, None) = {}
        /\ FinalizeResponse(s2, g.token).outcome = "redirect"
        /\ DOMAIN FinalizeResponse(s2, g.token).session
              = { <<"remote_realm", g.request.realm>> }
        /\ get_identity_dict_from_session(FinalizeResponse(s2, g.token).session,
                                          None, "srvA") = {}

(* C2: Expiry. A redemption of an issued, untampered token attempted when   *)
(* more than the token validity has elapsed since issuance fails with       *)
(* "Billing access token expired." and leaves the session as it was; one    *)
(* attempted at an age strictly below the validity succeeds and establishes *)
(* the record of the claim's realm.                                         *)
C2_Expiry ==
    \A s \in Sessions, g \in issued :
        LET answer == FinalizeResponse(s, g.token)
        IN  /\ now - g.issued_at > SIGNED_ACCESS_TOKEN_VALIDITY_IN_SECONDS =>
                  /\ answer.outcome = "Billing access token expired."
                  /\ answer.redirect = {}
                  /\ answer.session = session[s]
            /\ now - g.issued_at < SIGNED_ACCESS_TOKEN_VALIDITY_IN_SECONDS =>
                  /\ answer.outcome = "redirect"
                  /\ <<"remote_realm", g.request.realm>> \in DOMAIN answer.session

\* An issued token is past its validity and its redemption is refused as expired,
\* in a session that holds nothing and in one that holds an identity.
C2_Witness ==
    \E g \in issued, s1, s2 \in Sessions :
        /\ now - g.issued_at > SIGNED_ACCESS_TOKEN_VALIDITY_IN_SECONDS
        /\ session[s1] = NoIdentities
        /\ session[s2] # NoIdentities
        /\ FinalizeResponse(s1, g.token).outcome = "Billing access token expired."
        /\ FinalizeResponse(s2, g.token).outcome = "Billing access token expired."

(* C3: Tamper detection. A redemption of a token that differs from an       *)
(* issued token in its payload, or that is signed under another key, fails  *)
(* with "Invalid billing access token." at every age and writes nothing     *)
(* into the session.                                                        *)
C3_TamperDetection ==
    \A s \in Sessions, token \in Presentable :
        Tampered(token) =>
            LET answer == FinalizeResponse(s, token)
            IN  /\ answer.outcome = "Invalid billing access token."
                /\ answer.redirect = {}
                /\ answer.session = session[s]

\* Every member of an issued token's payload can be altered, each alteration is
\* refused as invalid, and the issued token itself is past its validity.
C3_Witness ==
    \E g \in issued :
        /\ now - g.issued_at > SIGNED_ACCESS_TOKEN_VALIDITY_IN_SECONDS
        /\ \A i \in PayloadMembers :
              LET token == Tamper(g.token, [kind |-> "value", member |-> i], now)
              IN  /\ token \in Presentable
                  /\ token.value # g.token.value
                  /\ token.signature = g.token.signature
                  /\ FinalizeResponse("s1", token).outcome = "Invalid billing access token."

(* C4 as stated: single use. No token is redeemed successfully more than    *)
(* once: once a token has been redeemed, a redemption attempt with it, in   *)
(* any session, does not succeed.                                           *)
C4_SingleUse ==
    \A s \in Sessions, token \in redeemed :
        FinalizeResponse(s, token).outcome # "redirect"

(* C4 as amended: the code keeps no record of redeemed tokens. A redemption *)
(* attempt with a token that was already redeemed successfully succeeds     *)
(* again, in any session, exactly when the token's age does not exceed the  *)
(* token validity, and otherwise fails with "Billing access token expired." *)
(* and writes nothing.                                                      *)
C4_ReplayUntilExpiry ==
    \A s \in Sessions, token \in redeemed :
        LET answer == FinalizeResponse(s, token)
        IN  /\ GrantsOf(token) # {}
            /\ \A g \in GrantsOf(token) :
                  /\ answer.outcome = "redirect"
                        <=> now - g.issued_at <= SIGNED_ACCESS_TOKEN_VALIDITY_IN_SECONDS
                  /\ answer.outcome = "redirect"
                        => answer.session =
                              ( <<"remote_realm", g.request.realm>> :> ClaimOf(g) )
                  /\ answer.outcome # "redirect"
                        => /\ answer.outcome = "Billing access token expired."
                           /\ answer.session = session[s]

\* A token has been redeemed in both sessions, which hold the identity it carries,
\* and a further redemption of it still succeeds.
C4_Witness ==
    \E g \in issued :
        /\ g.token \in redeemed
        /\ \A s \in Sessions :
              /\ session[s] = ( <<"remote_realm", g.request.realm>> :> ClaimOf(g) )
              /\ FinalizeResponse(s, g.token).outcome = "redirect"

(* C5: Round-trip. A successful redemption is the redemption of an issued   *)
(* token, and the record it writes into the session, under the scoping key  *)
(* of the claim's organization, equals the claim that was issued, member by *)
(* member: user, remote_server_uuid, remote_realm_uuid, authenticated_at,   *)
(* uri_scheme and next_page. A redemption of an issued token within the     *)
(* validity is successful. Every record a session holds under a realm's key *)
(* is the claim of an issuance.                                             *)
C5_RoundTrip ==
    /\ \A s \in Sessions, token \in Presentable :
          LET answer == FinalizeResponse(s, token)
          IN  answer.outcome = "redirect" =>
                \E g \in GrantsOf(token) :
                  LET record == answer.session[<<"remote_realm", g.request.realm>>]
                  IN  /\ <<"remote_realm", g.request.realm>> \in DOMAIN answer.session
                      /\ record.user.user_email = g.request.user.email
                      /\ record.user.user_uuid = g.request.user.uuid
                      /\ record.user.user_full_name = g.request.user.full_name
                      /\ record.remote_server_uuid = g.request.remote_server
                      /\ record.remote_realm_uuid = g.request.realm
                      /\ record.authenticated_at = g.issued_at
                      /\ record.uri_scheme = g.request.uri_scheme
                      /\ record.next_page = g.request.next_page
                      /\ DOMAIN record = { "user", "remote_server_uuid", "remote_realm_uuid",
                                           "authenticated_at", "uri_scheme", "next_page" }
    /\ \A s \in Sessions, g \in issued :
          now - g.issued_at <= SIGNED_ACCESS_TOKEN_VALIDITY_IN_SECONDS
              => FinalizeResponse(s, g.token).outcome = "redirect"
    /\ \A s \in Sessions : \A key \in DOMAIN session[s] :
          key[1] = "remote_realm" =>
              \E g \in issued : /\ key[2] = g.request.realm
                                /\ session[s][key] = ClaimOf(g)

\* A token issued for Hamlet over http:// has been redeemed, and a session
\* holds Hamlet's claim under the realm's key.
C5_Witness ==
    \E g \in issued, s \in Sessions :
        /\ g.token \in redeemed
        /\ g.request.user = Hamlet
        /\ g.request.uri_scheme = "http://"
        /\ <<"remote_realm", g.request.realm>> \in DOMAIN session[s]
        /\ session[s][<<"remote_realm", g.request.realm>>].user.user_full_name
              = "King Hamlet"
        /\ session[s][<<"remote_realm", g.request.realm>>].uri_scheme = "http://"

(* C6: Issuance is disabled outside the trusted mode. While DEVELOPMENT is  *)
(* off no token is ever signed, no issuance request returns a redemption    *)
(* URL, and every issuance request the view receives (one whose parameters  *)
(* passed typed_endpoint) is answered 404, whatever the registry holds.     *)
C6_IssuanceDisabled ==
    ~DEVELOPMENT =>
        /\ issued = {}
        /\ \A req \in EntryRequests :
              /\ EntryResponse(req).billing_access_url = {}
              /\ req.next_page \in VALID_NEXT_PAGES => EntryResponse(req).outcome = "404"

\* With DEVELOPMENT off, at the end of the clock and after a legacy login, an
\* issuance request for a realm that the registry links to the calling server is
\* answered 404, and so is one for a realm that the registry has dropped.
C6_Witness ==
    /\ ~DEVELOPMENT
    /\ now = MaxTime
    /\ session["s1"] # NoIdentities
    /\ \E req \in EntryRequests :
          /\ remote_realms[req.realm] = req.remote_server
          /\ EntryResponse(req).outcome = "404"
    /\ \E req \in EntryRequests :
          /\ remote_realms[req.realm] = NoServer
          /\ EntryResponse(req).outcome = "404"

(* C7: Unknown organization. In trusted mode, an issuance request for a     *)
(* realm that the registry does not link to the calling server fails with   *)
(* MissingRemoteRealmError, returns no URL and signs no token; and every    *)
(* token that is issued names a realm that the registry links to the        *)
(* token's server at the moment of issuance.                                *)
C7_UnknownOrganization ==
    /\ [](\A req \in EntryRequests :
            ( /\ DEVELOPMENT
              /\ req.next_page \in VALID_NEXT_PAGES
              /\ remote_realms[req.realm] # req.remote_server )
            => ( /\ EntryResponse(req).outcome = "MissingRemoteRealmError"
                 /\ EntryResponse(req).billing_access_url = {} ))
    /\ [][ \A g \in issued' \ issued :
             /\ remote_realms[Decode(g.token.value).remote_realm_uuid]
                    = Decode(g.token.value).remote_server_uuid
             /\ Decode(g.token.value).remote_realm_uuid = g.request.realm
             /\ Decode(g.token.value).remote_server_uuid = g.request.remote_server
             /\ g.issued_at = now
         ]_vars

\* In trusted mode, a token was issued for a realm whose registration has since
\* been removed: an issuance request for it fails with MissingRemoteRealmError,
\* and so does one for a realm that is registered to another server.
C7_Witness ==
    /\ DEVELOPMENT
    /\ \E g \in issued, req \in EntryRequests :
          /\ req.realm = g.request.realm
          /\ req.remote_server = g.request.remote_server
          /\ remote_realms[req.realm] = NoServer
          /\ EntryResponse(req).outcome = "MissingRemoteRealmError"
    /\ \E req \in EntryRequests :
          /\ remote_realms[req.realm] \in RemoteServers
          /\ remote_realms[req.realm] # req.remote_server
          /\ EntryResponse(req).outcome = "MissingRemoteRealmError"

(* C8: Legacy login outcomes. For a POST that carries both fields: an       *)
(* unknown server id gives the not-found message; a known id with a wrong   *)
(* secret gives the bad-secret message; a known id with the right secret    *)
(* and the deactivated flag set gives the deactivated message; a known id   *)
(* with the right secret and an active server redirects and writes the      *)
(* server-scoped record of that server. The session is written in the       *)
(* fourth case only.                                                        *)
C8_LegacyOutcomes ==
    \A s \in Sessions, req \in LegacyRequests :
      ( /\ req.method = "POST"
        /\ req.server_org_id # None
        /\ req.server_org_secret # None
        /\ req.next_page \in VALID_NEXT_PAGES ) =>
          LET id == req.server_org_id
              secret == req.server_org_secret
              answer == LegacyResponse(s, req)
              refused(message) ==
                  /\ answer.outcome = "render"
                  /\ answer.error_message = message
                  /\ answer.redirect = {}
                  /\ answer.session = session[s]
          IN  IF id \notin RemoteServers
              THEN refused("Did not find a server registration for this server_org_id.")
              ELSE IF secret # api_key(id)
              THEN refused("Invalid server_org_secret.")
              ELSE IF deactivated[id]
              THEN refused("Your server registration has been deactivated.")
              ELSE /\ answer.outcome = "redirect"
                   /\ answer.redirect # {}
                   /\ answer.session =
                          ( <<"remote_server", id>> :>
                              [ remote_server_uuid |-> id, authenticated_at |-> now ] )

\* A session holds the record of an active server's login, and in that session a
\* deactivated server that submits its own secret, an unknown server and a server
\* with a wrong secret are each refused with their message.
C8_Witness ==
    \E s \in Sessions, req1, req2, req3 \in LegacyRequests :
        /\ DOMAIN session[s] = { <<"remote_server", "srvA">> }
        /\ session[s][<<"remote_server", "srvA">>].remote_server_uuid = "srvA"
        /\ session[s][<<"remote_server", "srvA">>].authenticated_at > 0
        /\ req1.method = "POST" /\ req2.method = "POST" /\ req3.method = "POST"
        /\ req1.server_org_id \in RemoteServers
        /\ deactivated[req1.server_org_id]
        /\ req1.server_org_secret = api_key(req1.server_org_id)
        /\ LegacyResponse(s, req1).error_message
              = "Your server registration has been deactivated."
        /\ req2.server_org_id \notin RemoteServers \cup {None}
        /\ req2.server_org_secret # None
        /\ LegacyResponse(s, req2).error_message
              = "Did not find a server registration for this server_org_id."
        /\ req3.server_org_id \in RemoteServers
        /\ req3.server_org_secret \notin {None, api_key(req3.server_org_id)}
        /\ LegacyResponse(s, req3).error_message = "Invalid server_org_secret."

\* The configuration violates token validity < session validity.
Misconfigured ==
    SIGNED_ACCESS_TOKEN_VALIDITY_IN_SECONDS >= REMOTE_BILLING_SESSION_VALIDITY_SECONDS

SelectedPage(next_page) ==
    CASE next_page = None -> "remote_realm_plans_page"
      [] next_page = "plans" -> "remote_realm_plans_page"
      [] next_page = "sponsorship" -> "remote_realm_sponsorship_page"
      [] next_page = "upgrade" -> "remote_realm_upgrade_page"
      [] next_page = "billing" -> "remote_realm_billing_page"

(* C10: next_page in the token flow. An issuance request whose next_page is *)
(* outside {None, sponsorship, upgrade, billing, plans} is rejected and no  *)
(* token is signed for it, so every issued token carries a next_page of the *)
(* enumeration; a successful redemption redirects to the page, of the realm *)
(* named in the claim, that the claim's next_page selects (None selects     *)
(* plans), which the redirect of every value of the enumeration is; and the *)
(* redemption of an issued token never fails the assert that next_page is   *)
(* in the enumeration.                                                      *)
C10_NextPage ==
    /\ \A req \in EntryRequests :
          req.next_page \notin {None, "sponsorship", "upgrade", "billing", "plans"}
            => /\ EntryResponse(req).outcome = "invalid parameter"
               /\ EntryResponse(req).billing_access_url = {}
    /\ \A g \in issued :
          /\ g.request.next_page \in {None, "sponsorship", "upgrade", "billing", "plans"}
          /\ Decode(g.token.value).next_page = g.request.next_page
    /\ \A next_page \in {None, "sponsorship", "upgrade", "billing", "plans"},
          remote_realm_uuid \in RealmUuids :
          RealmPage(next_page, remote_realm_uuid)
              = <<SelectedPage(next_page), remote_realm_uuid>>
    /\ \A s \in Sessions, token \in Presentable :
          LET answer == FinalizeResponse(s, token)
          IN  /\ answer.outcome = "redirect" =>
                    \E g \in GrantsOf(token) :
                        answer.redirect =
                            { <<SelectedPage(g.request.next_page), g.request.realm>> }
              /\ GrantsOf(token) # {} => answer.outcome # "AssertionError"

\* A token issued with next_page "upgrade" has been redeemed, and redeeming it
\* redirects to the upgrade page of its realm.
C10_Witness ==
    \E g \in issued, s \in Sessions :
        /\ g.token \in redeemed
        /\ g.request.next_page = "upgrade"
        /\ session[s] = ( <<"remote_realm", g.request.realm>> :> ClaimOf(g) )
        /\ FinalizeResponse(s, g.token).redirect
              = { <<"remote_realm_upgrade_page", g.request.realm>> }

\* The kind of page a URL name denotes, whichever of realm and server scopes it.
PageKind(page) ==
    CASE page \in {"remote_realm_plans_page", "remote_server_plans_page"} -> "plans"
      [] page \in {"remote_realm_sponsorship_page", "remote_server_sponsorship_page"}
            -> "sponsorship"
      [] page \in {"remote_realm_upgrade_page", "remote_server_upgrade_page"} -> "upgrade"
      [] page \in {"remote_realm_billing_page", "remote_server_billing_page"} -> "billing"

(* C11 as stated: a successful legacy login redirects to the server's page  *)
(* of the kind that token redemption chooses, for the realm, from the same  *)
(* next_page, None included (which selects plans).                          *)
C11_SameRedirect ==
    \A s \in Sessions, req \in LegacyRequests :
        LET answer == LegacyResponse(s, req)
        IN  answer.outcome = "redirect" =>
              \A page \in answer.redirect, remote_realm_uuid \in RealmUuids :
                  /\ page[2] = req.server_org_id
                  /\ PageKind(page[1])
                        = PageKind(RealmPage(req.next_page, remote_realm_uuid)[1])

\* A session holds the record of a legacy login, and a login that names no
\* next_page is redirected to the server's billing page, while redemption with no
\* next_page redirects to the realm's plans page.
C11_Witness ==
    \E s \in Sessions, req \in LegacyRequests :
        /\ DOMAIN session[s] = { <<"remote_server", req.server_org_id>> }
        /\ req.next_page = None
        /\ LegacyResponse(s, req).outcome = "redirect"
        /\ LegacyResponse(s, req).redirect
              = { <<"remote_server_billing_page", req.server_org_id>> }
        /\ RealmPage(None, "r1") = <<"remote_realm_plans_page", "r1">>

(* C12: No partial trust on failure. A token redemption that fails, because *)
(* the token is past its validity or is not validly signed, and a legacy    *)
(* login that fails, because the server is unknown, the secret is wrong or  *)
(* the server is deactivated, leave the session's identity map exactly as   *)
(* it was and redirect nowhere; an identity established earlier in the      *)
(* session is still found afterwards.                                       *)
C12_NoPartialTrust ==
    /\ \A s \in Sessions, token \in Presentable :
          LET answer == FinalizeResponse(s, token)
              expired == \E g \in GrantsOf(token) :
                            now - g.issued_at > SIGNED_ACCESS_TOKEN_VALIDITY_IN_SECONDS
          IN  /\ (expired \/ Tampered(token)) =>
                    /\ answer.outcome \in { "Billing access token expired.",
                                            "Invalid billing access token." }
                    /\ answer.redirect = {}
                    /\ answer.session = session[s]
              /\ answer.outcome # "redirect" =>
                    /\ answer.redirect = {}
                    /\ answer.session = session[s]
    /\ \A s \in Sessions, req \in LegacyRequests :
          LET answer == LegacyResponse(s, req)
              unknown == req.server_org_id \notin RemoteServers
              bad_secret == /\ req.server_org_id \in RemoteServers
                            /\ req.server_org_secret # api_key(req.server_org_id)
              inactive == /\ req.server_org_id \in RemoteServers
                          /\ deactivated[req.server_org_id]
          IN  /\ (unknown \/ bad_secret \/ inactive) =>
                    /\ answer.outcome # "redirect"
                    /\ answer.redirect = {}
                    /\ answer.session = session[s]
                    /\ \A key \in DOMAIN session[s] :
                          /\ key \in DOMAIN answer.session
                          /\ answer.session[key] = session[s][key]
              /\ answer.outcome # "redirect" =>
                    /\ answer.redirect = {}
                    /\ answer.session = session[s]

\* A session holds the identity of a redeemed token, which has since expired; the
\* expired token, a tampered token, an unknown server, a wrong secret and a
\* deactivated server are each refused in that session, which keeps its identity.
C12_Witness ==
    \E s \in Sessions, g \in issued, token \in Presentable :
        /\ session[s] = ( <<"remote_realm", g.request.realm>> :> ClaimOf(g) )
        /\ now - g.issued_at > SIGNED_ACCESS_TOKEN_VALIDITY_IN_SECONDS
        /\ FinalizeResponse(s, g.token).outcome = "Billing access token expired."
        /\ FinalizeResponse(s, g.token).session = session[s]
        /\ Tampered(token)
        /\ FinalizeResponse(s, token).outcome = "Invalid billing access token."
        /\ FinalizeResponse(s, token).session = session[s]
        /\ \A id \in {"srvX", "srvA", "srvB"} :
              LET req == [ server_org_id |-> id, server_org_secret |-> "keyB",
                           method |-> "POST", next_page |-> None ]
              IN  /\ req \in LegacyRequests
                  /\ LegacyResponse(s, req).outcome = "render"
                  /\ LegacyResponse(s, req).error_message # ""
                  /\ LegacyResponse(s, req).session = session[s]

(* C13: Session identity records are mutated only by the two logins. A step *)
(* of token issuance and a step of a page view, whatever it answers, leave  *)
(* every session's identity map as it was; and whenever a session's map     *)
(* changes, the step is a successful token redemption or a successful       *)
(* legacy login in that session, and the map is the one that login leaves.  *)
C13_OnlyLoginsWrite ==
    [][ /\ (\E req \in EntryRequests : remote_server_billing_entry(req))
              => session' = session
        /\ (\E s \in Sessions, req \in PageRequests :
                render_tmp_remote_billing_page(s, req))
              => session' = session
        /\ \A s \in Sessions :
              session'[s] # session[s] =>
                  \/ \E token \in Presentable :
                        /\ FinalizeResponse(s, token).outcome = "redirect"
                        /\ session'[s] = FinalizeResponse(s, token).session
                  \/ \E req \in LegacyRequests :
                        /\ LegacyResponse(s, req).outcome = "redirect"
                        /\ session'[s] = LegacyResponse(s, req).session
      ]_vars

\* A token has been issued after a session was established by a legacy login: the
\* session still holds its record, its page is rendered, and the page of a session
\* without a record is refused.
C13_Witness ==
    \E s1, s2 \in Sessions, g \in issued :
        /\ DOMAIN session[s1] = { <<"remote_server", "srvA">> }
        /\ session[s1][<<"remote_server", "srvA">>].authenticated_at < g.issued_at
        /\ PageResponse(s1, [realm_uuid |-> None, server_uuid |-> "srvA"]).outcome = "render"
        /\ session[s2] = NoIdentities
        /\ PageResponse(s2, [realm_uuid |-> g.request.realm, server_uuid |-> None]).outcome
              = "User not authenticated"

(* C14: Page view outcomes. A page view whose session record, of a          *)
(* registered server, names a realm that the registry does not link to that *)
(* server aborts with an AssertionError: it is neither answered "User not   *)
(* authenticated" nor rendered. A page view in a session that holds no      *)
(* record under the requested scoping key is answered "User not             *)
(* authenticated" and is not rendered, whatever else the session holds.     *)
C14_PageOutcomes ==
    \A s \in Sessions, req \in PageRequests :
        LET answer == PageResponse(s, req)
            key == IF req.realm_uuid # None THEN <<"remote_realm", req.realm_uuid>>
                                            ELSE <<"remote_server", req.server_uuid>>
        IN  /\ key \notin DOMAIN session[s] =>
                  /\ answer.outcome = "User not authenticated"
                  /\ answer.context = {}
            /\ ( /\ key \in DOMAIN session[s]
                 /\ key[1] = "remote_realm"
                 /\ session[s][key].remote_server_uuid \in RemoteServers
                 /\ remote_realms[session[s][key].remote_realm_uuid]
                        # session[s][key].remote_server_uuid ) =>
                  /\ answer.outcome = "AssertionError"
                  /\ answer.context = {}
            /\ answer.outcome = "render" =>
                  /\ key \in DOMAIN session[s]
                  /\ key[1] = "remote_realm" =>
                        remote_realms[req.realm_uuid] = session[s][key].remote_server_uuid

\* One session holds the record of a realm whose registration has been removed and
\* its page view aborts; the page view of the same realm in the other session,
\* which holds another identity, is answered "User not authenticated".
C14_Witness ==
    \E s1, s2 \in Sessions, realm \in RealmUuids :
        /\ DOMAIN session[s1] = { <<"remote_realm", realm>> }
        /\ remote_realms[realm] = NoServer
        /\ PageResponse(s1, [realm_uuid |-> realm, server_uuid |-> None]).outcome
              = "AssertionError"
        /\ DOMAIN session[s2] = { <<"remote_server", "srvA">> }
        /\ PageResponse(s2, [realm_uuid |-> realm, server_uuid |-> None]).outcome
              = "User not authenticated"

(* C16: Redemption trusts the signature and does not consult the registry.  *)
(* The redemption of an issued token whose age does not exceed the validity *)
(* succeeds and writes the realm-scoped record of the claim, also when the  *)
(* registry no longer links the claim's realm to the claim's server; a page *)
(* view in a session that holds such a record then aborts with an           *)
(* AssertionError.                                                          *)
C16_RedemptionTrustsSignature ==
    /\ \A s \in Sessions, g \in issued :
          now - g.issued_at <= SIGNED_ACCESS_TOKEN_VALIDITY_IN_SECONDS =>
              LET answer == FinalizeResponse(s, g.token)
              IN  /\ answer.outcome = "redirect"
                  /\ answer.session = ( <<"remote_realm", g.request.realm>> :> ClaimOf(g) )
    /\ \A s \in Sessions, g \in issued :
          ( /\ session[s] = ( <<"remote_realm", g.request.realm>> :> ClaimOf(g) )
            /\ remote_realms[g.request.realm] # g.request.remote_server ) =>
              PageResponse(s, [realm_uuid |-> g.request.realm, server_uuid |-> None]).outcome
                  = "AssertionError"

\* The registration of a realm has been removed within the validity of a token
\* issued for it: one session holds the record that the token's redemption wrote,
\* and its page view aborts; the redemption of the token in the other session,
\* which holds no record, still succeeds.
C16_Witness ==
    \E s1, s2 \in Sessions, g \in issued :
        /\ remote_realms[g.request.realm] = NoServer
        /\ now - g.issued_at <= SIGNED_ACCESS_TOKEN_VALIDITY_IN_SECONDS
        /\ g.token \in redeemed
        /\ session[s1] = ( <<"remote_realm", g.request.realm>> :> ClaimOf(g) )
        /\ PageResponse(s1, [realm_uuid |-> g.request.realm, server_uuid |-> None]).outcome
              = "AssertionError"
        /\ session[s2] = NoIdentities
        /\ FinalizeResponse(s2, g.token).outcome = "redirect"
        /\ FinalizeResponse(s2, g.token).session = session[s1]

(* C17: Provenance of session identities. In every reachable state, a       *)
(* realm-scoped record in a session is the claim of an issuance, whose      *)
(* token has been redeemed; every issuance happens in trusted mode for a    *)
(* realm that the registry links to the calling server at that moment; a    *)
(* server-scoped record in a session names a registered server; a           *)
(* redemption succeeds only for an issued token and a legacy login only for *)
(* a POST that carries the stored secret of an active server; and a         *)
(* session's map changes only into the claim of an issued token, redeemed   *)
(* by that step, or into the record that such a legacy login writes.        *)
C17_Provenance ==
    /\ [](\A s \in Sessions : \A key \in DOMAIN session[s] :
            /\ key[1] = "remote_realm" =>
                  /\ DEVELOPMENT
                  /\ \E g \in issued :
                        /\ key[2] = g.request.realm
                        /\ session[s][key] = ClaimOf(g)
                        /\ g.token \in redeemed
            /\ key[1] = "remote_server" =>
                  /\ key[2] \in RemoteServers
                  /\ session[s][key].remote_server_uuid = key[2]
                  /\ session[s][key].authenticated_at <= now)
    /\ [](\A s \in Sessions :
            /\ \A token \in Presentable :
                  FinalizeResponse(s, token).outcome = "redirect" =>
                      \E g \in issued :
                          /\ g.token = token
                          /\ FinalizeResponse(s, token).session
                                = ( <<"remote_realm", g.request.realm>> :> ClaimOf(g) )
            /\ \A req \in LegacyRequests :
                  LegacyResponse(s, req).outcome = "redirect" =>
                      /\ req.method = "POST"
                      /\ req.server_org_id \in RemoteServers
                      /\ req.server_org_secret = api_key(req.server_org_id)
                      /\ ~deactivated[req.server_org_id])
    /\ [][ /\ \A g \in issued' \ issued :
                 /\ DEVELOPMENT
                 /\ g.issued_at = now
                 /\ g.request \in EntryRequests
                 /\ remote_realms[g.request.realm] = g.request.remote_server
                 /\ g.token = dumps(SECRET_KEY, ClaimOf(g), now)
           /\ \A s \in Sessions :
                 session'[s] # session[s] =>
                     \/ \E g \in issued :
                           /\ session'[s] = ( <<"remote_realm", g.request.realm>> :> ClaimOf(g) )
                           /\ g.token \in redeemed'
                           /\ now - g.issued_at <= SIGNED_ACCESS_TOKEN_VALIDITY_IN_SECONDS
                     \/ \E req \in LegacyRequests :
                           /\ req.method = "POST"
                           /\ req.server_org_id \in RemoteServers
                           /\ req.server_org_secret = api_key(req.server_org_id)
                           /\ ~deactivated[req.server_org_id]
                           /\ session'[s] =
                                 ( <<"remote_server", req.server_org_id>> :>
                                     [ remote_server_uuid |-> req.server_org_id,
                                       authenticated_at |-> now ] )
         ]_vars

\* One session holds the claim of a redeemed token and the other the record of a
\* legacy login made after the token was issued.
C17_Witness ==
    \E s1, s2 \in Sessions, g \in issued :
        /\ g.token \in redeemed
        /\ session[s1] = ( <<"remote_realm", g.request.realm>> :> ClaimOf(g) )
        /\ DOMAIN session[s2] = { <<"remote_server", "srvA">> }
        /\ session[s2][<<"remote_server", "srvA">>].authenticated_at > g.issued_at

(* C18: Freshness of a redeemed session. The record that a successful token *)
(* redemption writes carries the issuance time as authenticated_at, not the *)
(* redemption time; at the moment it is written its age, now minus          *)
(* authenticated_at, is at most the token validity and so strictly below    *)
(* the session validity.                                                    *)
C18_Freshness ==
    \A s \in Sessions, token \in Presentable :
        LET answer == FinalizeResponse(s, token)
        IN  answer.outcome = "redirect" =>
              \A key \in DOMAIN answer.session :
                  /\ \E g \in GrantsOf(token) :
                        answer.session[key].authenticated_at = g.issued_at
                  /\ now - answer.session[key].authenticated_at >= 0
                  /\ now - answer.session[key].authenticated_at
                        <= SIGNED_ACCESS_TOKEN_VALIDITY_IN_SECONDS
                  /\ now - answer.session[key].authenticated_at
                        < REMOTE_BILLING_SESSION_VALIDITY_SECONDS

\* A token is redeemed at the last moment of its validity: the record written
\* carries the earlier issuance time, and its age equals the token validity.
C18_Witness ==
    \E s \in Sessions, g \in issued :
        /\ now - g.issued_at = SIGNED_ACCESS_TOKEN_VALIDITY_IN_SECONDS
        /\ g.token \in redeemed
        /\ FinalizeResponse(s, g.token).outcome = "redirect"
        /\ session[s] = FinalizeResponse(s, g.token).session
        /\ \A key \in DOMAIN session[s] :
              /\ session[s][key].authenticated_at = g.issued_at
              /\ session[s][key].authenticated_at < now

(* C19: Legacy login checks the secret before the deactivated flag. A POST  *)
(* that names a registered server with a secret other than the stored one   *)
(* is answered "Invalid server_org_secret." whether or not the server is    *)
(* deactivated; and when the registry changes in deactivated flags only,    *)
(* every submission that does not carry the stored secret of the server it  *)
(* names gets the same answer after the change as before it.                *)
C19_SecretBeforeFlag ==
    /\ [](\A s \in Sessions, req \in LegacyRequests :
            ( /\ req.method = "POST"
              /\ req.next_page \in VALID_NEXT_PAGES
              /\ req.server_org_id \in RemoteServers
              /\ req.server_org_secret \notin {None, api_key(req.server_org_id)} )
            => LegacyResponse(s, req) =
                  [ outcome |-> "render", error_message |-> "Invalid server_org_secret.",
                    redirect |-> {}, session |-> session[s] ])
    /\ [][ ( /\ deactivated' # deactivated
             /\ UNCHANGED <<config, now, remote_realms, issued, redeemed, session>> )
           => \A s \in Sessions, req \in LegacyRequests :
                 ( \/ req.server_org_id \notin RemoteServers
                   \/ req.server_org_secret # api_key(req.server_org_id) )
                 => LegacyResponse(s, req)' = LegacyResponse(s, req)
         ]_vars

\* The flags of both servers have been changed: the server that is deactivated now
\* and the server that is active now each answer a wrong secret with the
\* bad-secret message, and the active one has logged in with its own.
C19_Witness ==
    \E s \in Sessions :
        /\ deactivated["srvA"]
        /\ ~deactivated["srvB"]
        /\ DOMAIN session[s] = { <<"remote_server", "srvB">> }
        /\ \A id \in RemoteServers :
              LET req == [ server_org_id |-> id,
                           server_org_secret |-> IF id = "srvA" THEN "keyB" ELSE "keyA",
                           method |-> "POST", next_page |-> None ]
              IN  /\ req \in LegacyRequests
                  /\ LegacyResponse(s, req).error_message = "Invalid server_org_secret."

(* C20: Legacy login establishes a session only from a POST that carries    *)
(* both fields. A request without the server id or without the secret, by   *)
(* any method, re-renders the form with no error message; a request with    *)
(* both fields by a method other than POST is answered                      *)
(* HttpResponseNotAllowed. In both cases the answer is the same whatever    *)
(* the registry holds and whatever the secret is, and the session's         *)
(* identity map is as it was. A login that redirects is a POST with both.   *)
C20_PostWithBothFields ==
    \A s \in Sessions, req \in LegacyRequests :
        LET answer == LegacyResponse(s, req)
            missing == req.server_org_id = None \/ req.server_org_secret = None
        IN  /\ (req.next_page \in VALID_NEXT_PAGES /\ missing) =>
                  answer = [ outcome |-> "render", error_message |-> "",
                             redirect |-> {}, session |-> session[s] ]
            /\ (req.next_page \in VALID_NEXT_PAGES /\ ~missing /\ req.method # "POST") =>
                  answer = [ outcome |-> "HttpResponseNotAllowed", error_message |-> "",
                             redirect |-> {}, session |-> session[s] ]
            /\ answer.outcome = "redirect" => (req.method = "POST" /\ ~missing)

\* In a session that holds an identity, a GET that carries an active server's id
\* and its own secret is answered HttpResponseNotAllowed, and a POST and a GET
\* without the secret re-render the form without a message; the session keeps
\* its identity.
C20_Witness ==
    \E s \in Sessions :
        /\ session[s] # NoIdentities
        /\ ~deactivated["srvA"]
        /\ LET get == [ server_org_id |-> "srvA", server_org_secret |-> api_key("srvA"),
                        method |-> "GET", next_page |-> None ]
           IN  /\ get \in LegacyRequests
               /\ LegacyResponse(s, get).outcome = "HttpResponseNotAllowed"
               /\ LegacyResponse(s, get).session = session[s]
        /\ \A method \in {"GET", "POST"} :
              LET req == [ server_org_id |-> "srvA", server_org_secret |-> None,
                           method |-> method, next_page |-> None ]
              IN  /\ req \in LegacyRequests
                  /\ LegacyResponse(s, req).outcome = "render"
                  /\ LegacyResponse(s, req).error_message = ""
                  /\ LegacyResponse(s, req).session = session[s]

====
